---- MODULE Spec2Model ----
(***************************************************************************)
(* State-machine model of the printer client of src/utils/printerService.ts *)
(* : class PrinterSocket (transport, request correlator, push dispatcher)   *)
(* and class PrinterService (session and badge print job).                  *)
(*                                                                          *)
(* JavaScript runs one task at a time: an event handler, a timer callback   *)
(* or a call from the UI runs to completion, then every continuation whose  *)
(* awaited promise is settled runs (the microtask queue) before the next    *)
(* task.  Each task is one action; each continuation after an `await` is    *)
(* one action, and no task starts while a continuation is runnable.         *)
(***************************************************************************)
EXTENDS Integers, Sequences, FiniteSets, TLC

(* ---------------- bounds of the model (not program constants) ---------- *)
\* WebSocket objects ever constructed
MaxSockets == 2
\* printParticipantBadge invocations
MaxJobs == 2
\* pushes of the daemon that report a completed print or an error
MaxPushes == 2
\* connect() invocations
MaxConnects == 2
\* getPrinters() invocations
MaxListCalls == 1
\* disconnect() invocations
MaxDisconnects == 1
\* invocations of initializeSdk and of selectPrinter, each
MaxOpCalls == 2
MaxCallbackCalls == 2
MaxInvocations == 2

(* ---------------- program constants ------------------------------------ *)
\* errorCode of the synthetic timeout / not-connected response
TimeoutErrorCode == 22
\* a non-zero errorCode reported by the daemon
DaemonErrorCode == 5

NoSocket == 0
Sockets == 1..MaxSockets
Jobs == 1..MaxJobs
Runs == 1..MaxPushes
ConnectIds == 1..MaxConnects

\* What the environment does in one run is bounded by a scenario: how many
\* sockets may be constructed, and how many calls of each kind the UI makes.
\* The scenarios are: the connection's life (connects, drops, reconnects, a
\* disconnect) without a print job; one print job with drops, a reconnect
\* and a disconnect; repeated and overlapping session calls; two print jobs;
\* one print job with two reports of the daemon.  Init draws the scenario.
Scenarios ==
    {[sockets |-> MaxSockets, connects |-> MaxConnects, disconnects |-> MaxDisconnects,
      ops |-> 1, lists |-> 0, jobs |-> 0, pushes |-> 0],
     [sockets |-> MaxSockets, connects |-> 1, disconnects |-> MaxDisconnects,
      ops |-> 1, lists |-> 0, jobs |-> 1, pushes |-> 1],
     [sockets |-> 1, connects |-> 1, disconnects |-> 0,
      ops |-> MaxOpCalls, lists |-> MaxListCalls, jobs |-> 0, pushes |-> 1],
     [sockets |-> 1, connects |-> 1, disconnects |-> 0,
      ops |-> 1, lists |-> 0, jobs |-> MaxJobs, pushes |-> 0],
     [sockets |-> 1, connects |-> 1, disconnects |-> 0,
      ops |-> 1, lists |-> 0, jobs |-> 1, pushes |-> MaxPushes]}

\* printer names / ports a caller may select; NoPrinter is `null`
NoPrinter == "null"
PrinterNames == {"ThermalPrinterA"}
NoPort == 0
Ports == {9100}

\* the three text elements of executePrintJob, in the order of the array
TextElements == <<"name", "id", "department">>

\* coroutines that await a PrinterSocket.send promise
ExecOwner(j) == <<"exec", j, 0>>
ListenerOwner(j, k) == <<"listener", j, k>>
InitSdkOwner == <<"initializeSdk", 0, 0>>
SelectOwner == <<"selectPrinter", 0, 0>>
GetPrintersOwner == <<"getPrinters", 0, 0>>
OpOwners == {InitSdkOwner, SelectOwner, GetPrintersOwner}
Owners ==
    {ExecOwner(j) : j \in Jobs}
      \cup {ListenerOwner(j, k) : j \in Jobs, k \in Runs}
      \cup OpOwners

\* resultAck.info of a getAllPrinters response: a JSON map, or text that
\* JSON.parse rejects
PrintersJson == "{\"ThermalPrinterA\":\"9100\"}"
NotJson == "no printers"

NoValue == [errorCode |-> -1, info |-> "", Error |-> "none"]
NoPromise == [status |-> "none", n |-> 0, value |-> NoValue, resolveCalls |-> 0]

EmptyPool == [x \in {} |-> 0]
Remove(f, k) == [x \in DOMAIN f \ {k} |-> f[x]]
\* variant of the pool assignment with a fault: an existing entry is kept
PutKeepsFirst(f, k, v) ==
    IF k \in DOMAIN f THEN f ELSE [x \in DOMAIN f \cup {k} |-> v]
Put(f, k, v) == [x \in DOMAIN f \cup {k} |-> IF x = k THEN v ELSE f[x]]
SeqRemove(s, e) == SelectSeq(s, LAMBDA x : x # e)
SeqToSet(s) == {s[i] : i \in 1..Len(s)}

VARIABLES
    scenario,               \* the bounds of this run (never changes)
    \* ---- PrinterSocket fields
    customClose,            \* customClose
    isProcessingCommitJob,  \* isProcessingCommitJob
    promisePool,            \* promisePool: apiName -> PromisePoolItem
    websocket,              \* _websocket: NoSocket (undefined) or a socket
    printListeners,         \* printListeners, in insertion order (job ids)
    openChangeCallback,     \* openChangeCallback is non-null
    \* ---- browser objects owned by PrinterSocket
    readyState,             \* readyState of every WebSocket constructed
    sendTimers,             \* live setTimeout handles of send()
    reconnectTimers,        \* live setTimeout handles of closeCallback()
    \* ---- PrinterService fields
    isConnected, isSdkInitialized, selectedPrinter, selectedPort,
    \* ---- promises returned by send(), by awaiting coroutine
    promises,
    \* ---- the daemon: requests written to a socket and not answered yet;
    \*      timedOut records that the client's timer has resolved the request
    daemon,
    \* ---- connect() calls: what each awaits and what it returned
    connectCalls,
    \* ---- initializeSdk / selectPrinter calls
    opPc, opCalls, opArgs, opResult,
    disconnectCalls,        \* disconnect() calls made
    pushCount,              \* pushes delivered that report a completion or an error
    \* ---- printParticipantBadge calls
    jobPc,                  \* position of executePrintJob
    printPromise,           \* state of printPromise
    printListenerVar,       \* local `printListener` is non-null
    isCompleted,            \* local `isCompleted`
    jobTimeout,             \* the 30 s timer is live
    listenerRuns,           \* listener invocations suspended at `await send(endJob)`
    sent,                   \* commands executePrintJob has sent, in order
    endJobSent,             \* endJob requests the job's listener has sent
    firedAfterCommit,       \* the 30 s timer fired when commitJob had been sent
    callbackCalls,          \* calls of listeners that are not a job's, in order
    legacy,                 \* the retrying PrinterService: its fields and one selectPrinter call
    \* ---- the pages that print: one handlePrint / testPrint call
    handler,                \* which handler was invoked
    uiPc,                   \* its position
    attended,               \* participants.attended of the participant in the store
    alerts                  \* texts shown by alert() / setMessage()

vars == <<scenario, customClose, isProcessingCommitJob, promisePool, websocket,
          printListeners, openChangeCallback, readyState, sendTimers,
          reconnectTimers, isConnected, isSdkInitialized, selectedPrinter,
          selectedPort, promises, daemon, connectCalls, opPc, opCalls, opArgs,
          opResult, disconnectCalls, pushCount, jobPc, printPromise, printListenerVar, isCompleted,
          jobTimeout, listenerRuns, sent, endJobSent, firedAfterCommit,
          callbackCalls, legacy, handler, uiPc, attended, alerts>>

uiVars == <<handler, uiPc, attended, alerts>>

\* the current state as one record, so that the methods below are functions
\* from state to state
State ==
    [scenario |-> scenario,
     customClose |-> customClose,
     isProcessingCommitJob |-> isProcessingCommitJob,
     promisePool |-> promisePool,
     websocket |-> websocket,
     printListeners |-> printListeners,
     openChangeCallback |-> openChangeCallback,
     readyState |-> readyState,
     sendTimers |-> sendTimers,
     reconnectTimers |-> reconnectTimers,
     isConnected |-> isConnected,
     isSdkInitialized |-> isSdkInitialized,
     selectedPrinter |-> selectedPrinter,
     selectedPort |-> selectedPort,
     promises |-> promises,
     daemon |-> daemon,
     connectCalls |-> connectCalls,
     opPc |-> opPc,
     opCalls |-> opCalls,
     opArgs |-> opArgs,
     opResult |-> opResult,
     disconnectCalls |-> disconnectCalls,
     pushCount |-> pushCount,
     jobPc |-> jobPc,
     printPromise |-> printPromise,
     printListenerVar |-> printListenerVar,
     isCompleted |-> isCompleted,
     jobTimeout |-> jobTimeout,
     listenerRuns |-> listenerRuns,
     sent |-> sent,
     endJobSent |-> endJobSent,
     firedAfterCommit |-> firedAfterCommit,
     callbackCalls |-> callbackCalls,
     legacy |-> legacy]

CommitService(st) ==
    /\ scenario' = st.scenario
    /\ customClose' = st.customClose
    /\ isProcessingCommitJob' = st.isProcessingCommitJob
    /\ promisePool' = st.promisePool
    /\ websocket' = st.websocket
    /\ printListeners' = st.printListeners
    /\ openChangeCallback' = st.openChangeCallback
    /\ readyState' = st.readyState
    /\ sendTimers' = st.sendTimers
    /\ reconnectTimers' = st.reconnectTimers
    /\ isConnected' = st.isConnected
    /\ isSdkInitialized' = st.isSdkInitialized
    /\ selectedPrinter' = st.selectedPrinter
    /\ selectedPort' = st.selectedPort
    /\ promises' = st.promises
    /\ daemon' = st.daemon
    /\ connectCalls' = st.connectCalls
    /\ opPc' = st.opPc
    /\ opCalls' = st.opCalls
    /\ opArgs' = st.opArgs
    /\ opResult' = st.opResult
    /\ disconnectCalls' = st.disconnectCalls
    /\ pushCount' = st.pushCount
    /\ jobPc' = st.jobPc
    /\ printPromise' = st.printPromise
    /\ printListenerVar' = st.printListenerVar
    /\ isCompleted' = st.isCompleted
    /\ jobTimeout' = st.jobTimeout
    /\ listenerRuns' = st.listenerRuns
    /\ sent' = st.sent
    /\ endJobSent' = st.endJobSent
    /\ firedAfterCommit' = st.firedAfterCommit
    /\ callbackCalls' = st.callbackCalls
    /\ legacy' = st.legacy

\* a step of the printer service: the pages' state is left alone
Commit(st) == CommitService(st) /\ UNCHANGED uiVars

\* the retrying PrinterService after construction
LegacyIdle ==
    [isConnected |-> FALSE, isSdkInitialized |-> FALSE, selectedPrinter |-> NoPrinter,
     hasSelectPrinter |-> TRUE, pc |-> "idle", attempt |-> 0, calls |-> 0,
     outcomes |-> <<>>, lostInCall |-> FALSE, result |-> "none", invocations |-> 0]

\* no handler of the pages has been invoked
UiIdle ==
    /\ handler = "none"
    /\ uiPc = "idle"
    /\ attended = FALSE
    /\ alerts = {}

Init ==
    /\ scenario \in Scenarios
    /\ customClose = FALSE
    /\ isProcessingCommitJob = FALSE
    /\ promisePool = EmptyPool
    /\ websocket = NoSocket
    /\ printListeners = <<>>
    /\ openChangeCallback = FALSE
    /\ readyState = [s \in Sockets |-> "none"]
    /\ sendTimers = {}
    /\ reconnectTimers = 0
    /\ isConnected = FALSE
    /\ isSdkInitialized = FALSE
    /\ selectedPrinter = NoPrinter
    /\ selectedPort = NoPort
    /\ promises = [o \in Owners |-> NoPromise]
    /\ daemon = {}
    /\ connectCalls = [c \in ConnectIds |-> [pc |-> "idle", socket |-> NoSocket]]
    /\ opPc = [o \in OpOwners |-> "idle"]
    /\ opCalls = [o \in OpOwners |-> 0]
    /\ opArgs = [printerName |-> NoPrinter, port |-> NoPort]
    /\ opResult = [o \in OpOwners |-> "none"]
    /\ disconnectCalls = 0
    /\ pushCount = 0
    /\ jobPc = [j \in Jobs |-> "idle"]
    /\ printPromise = [j \in Jobs |-> "none"]
    /\ printListenerVar = [j \in Jobs |-> FALSE]
    /\ isCompleted = [j \in Jobs |-> FALSE]
    /\ jobTimeout = [j \in Jobs |-> FALSE]
    /\ listenerRuns = [j \in Jobs |-> [k \in Runs |-> [pc |-> "none", errorCode |-> 0]]]
    /\ sent = [j \in Jobs |-> <<>>]
    /\ endJobSent = [j \in Jobs |-> 0]
    /\ firedAfterCommit = [j \in Jobs |-> FALSE]
    /\ callbackCalls = <<>>
    /\ UiIdle
    /\ legacy = LegacyIdle


(* ======================= PrinterSocket =============================== *)

\* a promise's resolve function: the first call settles the promise, a later
\* call changes nothing (resolveCalls records that it was made)
ResolvePromise(st, owner, n, value) ==
    LET p == st.promises[owner] IN
    IF p.n # n \/ p.status = "none" THEN st
    ELSE IF p.status = "pending"
      THEN [st EXCEPT !.promises[owner] =
                [status |-> "resolved", n |-> n, value |-> value, resolveCalls |-> 1]]
      ELSE [st EXCEPT !.promises[owner].resolveCalls = 2]

\* `await` hands the settled value to the coroutine; nothing reads it afterwards
Consume(st, owner) ==
    [st EXCEPT !.promises[owner].status = "consumed",
               !.promises[owner].value = NoValue]

\* clearTimeout(req.timeoutCallback)
ClearSendTimer(st, req) ==
    [st EXCEPT !.sendTimers = {t \in @ : ~(t.owner = req.owner /\ t.n = req.n)}]

\* variant of cleanupRequest with a fault: the timer is left running
cleanupRequestLeavesTimer(st, apiName, req) ==
    [st EXCEPT !.promisePool = Remove(@, apiName)]

cleanupRequest(st, apiName, req) ==
    LET st1 == ClearSendTimer(st, req)
    IN [st1 EXCEPT !.promisePool = Remove(@, apiName)]

MessageValue(msg) == [errorCode |-> msg.errorCode, info |-> msg.info, Error |-> "none"]

handleApiResponse(st, msg) ==
    IF msg.apiName \notin DOMAIN st.promisePool THEN st
    ELSE
      LET req == st.promisePool[msg.apiName] IN
      IF msg.apiName = "commitJob"
        THEN IF msg.info = "commitJob ok!"
               THEN [cleanupRequest(ResolvePromise(st, req.owner, req.n, MessageValue(msg)),
                                    msg.apiName, req)
                       EXCEPT !.isProcessingCommitJob = TRUE]
               ELSE st
        ELSE
          LET st1 == IF msg.errorCode # 0
                       THEN [st EXCEPT !.isProcessingCommitJob = FALSE]
                       ELSE st
          IN cleanupRequest(ResolvePromise(st1, req.owner, req.n, MessageValue(msg)),
                            msg.apiName, req)

\* variant of clearAllListeners with a fault: nothing is cleared
keepAllListeners(st) == st

clearAllListeners(st) == [st EXCEPT !.printListeners = <<>>]

addPrintListener(st, callback) ==
    [st EXCEPT !.printListeners = Append(SeqRemove(@, callback), callback)]

removePrintListener(st, callback) ==
    [st EXCEPT !.printListeners = SeqRemove(@, callback)]

getStatus(st) ==
    IF st.websocket = NoSocket THEN "undefined" ELSE st.readyState[st.websocket]

\* WebSocket.close() on an open socket: the closing handshake starts, and no
\* further message event is dispatched on it
WebSocketClose(st, s) ==
    [st EXCEPT !.readyState[s] = "CLOSING",
               !.daemon = {r \in @ : r.socket # s}]

\* variant of close with a fault: closing the socket cancels the timers of
\* the requests that are outstanding
closeCancelsTimers(st, closing) ==
    LET st1 == [st EXCEPT !.customClose = closing] IN
    IF st1.websocket # NoSocket /\ st1.readyState[st1.websocket] = "OPEN"
      THEN LET st2 == clearAllListeners(st1)
               st3 == IF st2.openChangeCallback
                        THEN [st2 EXCEPT !.isConnected = FALSE]
                        ELSE st2
           IN WebSocketClose([st3 EXCEPT !.sendTimers = {}], st3.websocket)
      ELSE st1

close(st, closing) ==
    LET st1 == [st EXCEPT !.customClose = closing] IN
    IF st1.websocket # NoSocket /\ st1.readyState[st1.websocket] = "OPEN"
      THEN LET st2 == clearAllListeners(st1)
               st3 == IF st2.openChangeCallback
                        THEN [st2 EXCEPT !.isConnected = FALSE]
                        ELSE st2
           IN WebSocketClose(st3, st3.websocket)
      ELSE st1

closeCallback(st) ==
    IF ~st.customClose
      THEN LET st1 == close([st EXCEPT !.isProcessingCommitJob = FALSE], FALSE)
           IN [st1 EXCEPT !.websocket = NoSocket,
                          !.printListeners = <<>>,
                          !.reconnectTimers = @ + 1,
                          !.customClose = FALSE]
      ELSE st

SocketsCreated(st) == Cardinality({s \in Sockets : st.readyState[s] # "none"})

\* variant of open with a fault: a socket is constructed on every call
openAlways(st, openChange) ==
    [st EXCEPT !.openChangeCallback = @ \/ openChange,
               !.websocket = SocketsCreated(st) + 1,
               !.readyState = [s \in Sockets |->
                                 IF s = SocketsCreated(st) + 1 THEN "CONNECTING" ELSE @[s]]]

\* variant of open with a fault: a socket is constructed unless the current
\* one is open
openUnlessOpen(st, openChange) ==
    IF st.websocket # NoSocket /\ st.readyState[st.websocket] = "OPEN"
      THEN [st EXCEPT !.openChangeCallback = @ \/ openChange]
      ELSE [st EXCEPT !.openChangeCallback = @ \/ openChange,
                      !.websocket = SocketsCreated(st) + 1,
                      !.readyState = [s \in Sockets |->
                                        IF s = SocketsCreated(st) + 1
                                          THEN "CONNECTING" ELSE @[s]]]

\* open(openChange): the socket is constructed only when _websocket is
\* undefined; otherwise the returned promise has no resolver attached
open(st, openChange) ==
    LET st1 == IF openChange THEN [st EXCEPT !.openChangeCallback = TRUE] ELSE st
    IN IF st1.websocket = NoSocket
         THEN [st1 EXCEPT !.websocket = SocketsCreated(st) + 1,
                          !.readyState[SocketsCreated(st) + 1] = "CONNECTING"]
         ELSE st1

\* _websocket.onopen of socket s: openChange(true); resolve({e, ws}) resumes
\* the connect() call that constructed s, which returns true
onopen(st, s) ==
    [st EXCEPT !.isConnected = TRUE,
               !.connectCalls =
                   [c \in ConnectIds |->
                      IF @[c].pc = "awaitOpen" /\ @[c].socket = s
                        THEN [@[c] EXCEPT !.pc = "returnedTrue"]
                        ELSE @[c]]]

\* _websocket.onerror / onclose of socket s.  Every socket is constructed by
\* connect() (openChange given) or by the reconnect timer, which passes the
\* openChangeCallback that connect() stored: openChange(false) always runs.
onerror(st, s) ==
    closeCallback([st EXCEPT !.isConnected = FALSE,
                             !.isProcessingCommitJob = FALSE])

onclose(st, s) ==
    closeCallback([st EXCEPT !.isConnected = FALSE,
                             !.printListeners = <<>>])

\* `new Date().getTime()` of the n-th send of a coroutine.  Two sends read the
\* same value only within one millisecond, and then their timers (same delay)
\* expire together, so that either timer stands for both: every send is given
\* a timestamp of its own.
Timestamp(owner, n) == <<owner, n>>

\* variant of send with a fault: the request is written whatever readyState is
sendWithoutStateCheck(st, owner, apiName) ==
    LET n == st.promises[owner].n + 1
    IN [st EXCEPT
          !.sendTimers = @ \cup {[apiName |-> apiName,
                                  timestamp |-> Timestamp(owner, n),
                                  owner |-> owner, n |-> n]},
          !.promises[owner] = [status |-> "pending", n |-> n,
                               value |-> NoValue, resolveCalls |-> 0],
          !.promisePool = Put(@, apiName,
                              [timestamp |-> Timestamp(owner, n),
                               owner |-> owner, n |-> n]),
          !.daemon = @ \cup {[socket |-> st.websocket, apiName |-> apiName,
                              owner |-> owner, n |-> n, timedOut |-> FALSE]}]

\* send(content): timer, pool entry under content.apiName, then the write,
\* or the synthetic response when the socket is not open
send(st, owner, apiName) ==
    LET n == st.promises[owner].n + 1
        st1 == [st EXCEPT
                  !.sendTimers = @ \cup {[apiName |-> apiName,
                                          timestamp |-> Timestamp(owner, n),
                                          owner |-> owner, n |-> n]},
                  !.promises[owner] = [status |-> "pending", n |-> n,
                                       value |-> NoValue, resolveCalls |-> 0],
                  !.promisePool = Put(@, apiName,
                                      [timestamp |-> Timestamp(owner, n),
                                       owner |-> owner, n |-> n])]
    IN IF st1.websocket # NoSocket /\ st1.readyState[st1.websocket] = "OPEN"
         THEN [st1 EXCEPT !.daemon = @ \cup {[socket |-> st1.websocket,
                                              apiName |-> apiName,
                                              owner |-> owner, n |-> n,
                                              timedOut |-> FALSE]}]
         ELSE ResolvePromise(st1, owner, n,
                             [errorCode |-> TimeoutErrorCode, info |-> "",
                              Error |-> "WebSocket not connected"])

\* variant of the timeout callback with a fault: the entry stays in the pool
sendTimeoutCallbackKeepsEntry(st, t) ==
    LET st1 == [st EXCEPT !.sendTimers = @ \ {t}]
    IN IF t.apiName \in DOMAIN st1.promisePool
          /\ st1.promisePool[t.apiName].timestamp = t.timestamp
         THEN ResolvePromise(st1, t.owner, t.n,
                             [errorCode |-> TimeoutErrorCode, info |-> "",
                              Error |-> "Request timeout"])
         ELSE st1

\* the setTimeout callback of send(), for the timer t
sendTimeoutCallback(st, t) ==
    LET st1 == [st EXCEPT !.sendTimers = @ \ {t},
                          !.isProcessingCommitJob =
                              IF t.apiName = "commitJob" THEN TRUE ELSE @]
    IN IF t.apiName \in DOMAIN st1.promisePool
          /\ st1.promisePool[t.apiName].timestamp = t.timestamp
         THEN LET req == st1.promisePool[t.apiName]
                  st2 == ResolvePromise(st1, req.owner, req.n,
                                        [errorCode |-> TimeoutErrorCode, info |-> "",
                                         Error |-> "Request timeout"])
              IN [ClearSendTimer(st2, req)
                    EXCEPT !.promisePool = Remove(@, t.apiName),
                           !.daemon = {IF r.owner = req.owner /\ r.n = req.n
                                         THEN [r EXCEPT !.timedOut = TRUE]
                                         ELSE r : r \in @}]
         ELSE st1

(* ======================= PrinterService ============================== *)

isReady(st) ==
    st.isConnected /\ st.isSdkInitialized /\ st.selectedPrinter # NoPrinter

\* settle printPromise: resolve(...) / reject(...) of an already settled
\* promise changes nothing
SettlePrintPromise(st, j, outcome) ==
    IF st.printPromise[j] = "pending"
      THEN [st EXCEPT !.printPromise[j] = outcome]
      ELSE st

\* variant of cleanup() with a fault: the job's pending requests are dropped
\* from the pool as well
cleanupDropsRequests(st, j) ==
    LET st1 == IF st.printListenerVar[j]
                 THEN [removePrintListener(st, j) EXCEPT !.printListenerVar[j] = FALSE]
                 ELSE st
        kept == {x \in DOMAIN st.promisePool : st.promisePool[x].owner # ExecOwner(j)}
    IN [st1 EXCEPT !.jobTimeout[j] = FALSE,
                   !.promisePool = [x \in kept |-> st.promisePool[x]]]

\* cleanup() of printParticipantBadge
cleanup(st, j) ==
    LET st1 == IF st.printListenerVar[j]
                 THEN [removePrintListener(st, j) EXCEPT !.printListenerVar[j] = FALSE]
                 ELSE st
    IN [st1 EXCEPT !.jobTimeout[j] = FALSE]

FreeRun(st, j) ==
    CHOOSE k \in Runs : st.listenerRuns[j][k].pc = "none"
                          /\ \A i \in Runs : i < k => st.listenerRuns[j][i].pc # "none"

Completed(msg) == msg.printCopies >= 1 /\ msg.printPages >= 1

\* the push listener of job j, up to its first await
printListener(st, j, msg) ==
    IF Completed(msg)
      THEN
        IF getStatus(st) = "OPEN"
          THEN LET k == FreeRun(st, j)
                   st1 == send(st, ListenerOwner(j, k), "endJob")
               IN [st1 EXCEPT !.listenerRuns[j][k] =
                                  [pc |-> "awaitEnd", errorCode |-> msg.errorCode],
                              !.endJobSent[j] = @ + 1]
          ELSE LET st1 == SettlePrintPromise(
                              cleanup([st EXCEPT !.isCompleted[j] = TRUE], j),
                              j, "resolvedTrue")
               IN IF msg.errorCode # 0
                    THEN SettlePrintPromise(cleanup(st1, j), j, "rejectedPush")
                    ELSE st1
      ELSE
        IF msg.errorCode # 0
          THEN SettlePrintPromise(cleanup(st, j), j, "rejectedPush")
          ELSE st

\* the listener of job j after `await this.socket.send({apiName: 'endJob'})`
printListenerResume(st, j, k) ==
    LET st1 == SettlePrintPromise(
                   cleanup([Consume(st, ListenerOwner(j, k))
                              EXCEPT !.isCompleted[j] = TRUE,
                                     !.listenerRuns[j][k].pc = "done"], j),
                   j, "resolvedTrue")
    IN IF st.listenerRuns[j][k].errorCode # 0
         THEN SettlePrintPromise(cleanup(st1, j), j, "rejectedPush")
         ELSE st1

\* a listener that is not a job's: a function given to addPrintListener that
\* returns normally, and one that throws
PlainCallback == MaxJobs + 1
ThrowingCallback == MaxJobs + 2
Callbacks == {PlainCallback, ThrowingCallback}

\* listener(msg): the listener of a job runs up to its first await (an async
\* function never throws into its caller); another callback is called, and
\* ThrowingCallback throws
listenerCall(st, j, msg) ==
    IF j \in Jobs THEN printListener(st, j, msg)
    ELSE [st EXCEPT !.callbackCalls = Append(@, j)]

\* the call made last in st1, and not yet in st, threw
Threw(st, st1) ==
    /\ Len(st1.callbackCalls) > Len(st.callbackCalls)
    /\ st1.callbackCalls[Len(st1.callbackCalls)] = ThrowingCallback

\* printListeners.forEach(listener => listener(msg)): an exception of a
\* listener ends the iteration
RECURSIVE forEachListener(_, _, _)
forEachListener(st, listeners, msg) ==
    IF listeners = <<>> THEN st
    ELSE LET j == Head(listeners)
             st1 == IF j \in SeqToSet(st.printListeners)
                      THEN listenerCall(st, j, msg)
                      ELSE st
         IN IF Threw(st, st1) THEN st1
            ELSE forEachListener(st1, Tail(listeners), msg)

\* variant of handleEventPush with a fault: only the listener registered
\* first is called
handleEventPushFirstOnly(st, msg) ==
    LET first == IF st.printListeners = <<>> THEN <<>>
                 ELSE <<Head(st.printListeners)>>
        st1 == forEachListener(st, first, msg)
    IN IF msg.errorCode # 0
         THEN [st1 EXCEPT !.isProcessingCommitJob = FALSE]
         ELSE st1

\* the exception of a listener leaves handleEventPush before the flag is set
handleEventPush(st, msg) ==
    LET st1 == forEachListener(st, st.printListeners, msg)
    IN IF Threw(st, st1) THEN st1
       ELSE IF msg.errorCode # 0
         THEN [st1 EXCEPT !.isProcessingCommitJob = FALSE]
         ELSE st1

messageRouter(st, msg) ==
    LET isAutoReport == msg.apiName = "commitJob" IN
    IF msg.apiName # "getPrinterHighLevelInfo" /\ msg.apiName # "printStatus"
         /\ ~isAutoReport
      THEN handleApiResponse(st, msg)
      ELSE IF isAutoReport THEN handleEventPush(st, msg) ELSE st


(* ======================= continuations =============================== *)

Resolved(st, owner) == st.promises[owner].status = "resolved"

ExecAwaiting ==
    {"startJob", "InitDrawingBoard", "draw1", "draw2", "draw3", "commitJob"}

ExecRunnable(st, j) == st.jobPc[j] \in ExecAwaiting /\ Resolved(st, ExecOwner(j))

ListenerRunnable(st, j, k) ==
    st.listenerRuns[j][k].pc = "awaitEnd" /\ Resolved(st, ListenerOwner(j, k))

OpRunnable(st, o) == st.opPc[o] = "await" /\ Resolved(st, o)

\* some continuation is in the microtask queue
MicrotaskPending ==
    \/ \E j \in Jobs : ExecRunnable(State, j)
    \/ \E j \in Jobs, k \in Runs : ListenerRunnable(State, j, k)
    \/ \E o \in OpOwners : OpRunnable(State, o)

\* executePrintJob throws: `.catch(reject)` of printParticipantBadge
execThrows(st, j) ==
    SettlePrintPromise([Consume(st, ExecOwner(j)) EXCEPT !.jobPc[j] = "threw"],
                       j, "rejectedStep")

execSend(st, j, pc, apiName, element) ==
    [send(st, ExecOwner(j), apiName)
       EXCEPT !.jobPc[j] = pc,
              !.sent[j] = Append(@, <<apiName, element>>)]

\* executePrintJob after the await at jobPc[j]
executePrintJobResume(st, j) ==
    LET ok == st.promises[ExecOwner(j)].value.errorCode = 0
        pc == st.jobPc[j]
    IN CASE pc = "startJob" ->
              IF ok THEN execSend(st, j, "InitDrawingBoard", "InitDrawingBoard", "")
                    ELSE execThrows(st, j)
         [] pc = "InitDrawingBoard" ->
              IF ok THEN execSend(st, j, "draw1", "DrawLableText", TextElements[1])
                    ELSE execThrows(st, j)
         [] pc = "draw1" ->
              IF ok THEN execSend(st, j, "draw2", "DrawLableText", TextElements[2])
                    ELSE execThrows(st, j)
         [] pc = "draw2" ->
              IF ok THEN execSend(st, j, "draw3", "DrawLableText", TextElements[3])
                    ELSE execThrows(st, j)
         [] pc = "draw3" ->
              IF ok THEN execSend(st, j, "commitJob", "commitJob", "")
                    ELSE execThrows(st, j)
         [] OTHER -> [Consume(st, ExecOwner(j)) EXCEPT !.jobPc[j] = "returned"]

\* variant of printParticipantBadge with a fault: isReady() is not consulted
printParticipantBadgeUngated(st, j) ==
    LET st1 == [st EXCEPT !.jobTimeout[j] = TRUE,
                          !.printPromise[j] = "pending",
                          !.printListenerVar[j] = TRUE]
    IN execSend(addPrintListener(st1, j), j, "startJob", "startJob", "")

\* printParticipantBadge(participantData), up to the first await
printParticipantBadge(st, j) ==
    IF ~isReady(st)
      THEN [st EXCEPT !.jobPc[j] = "notReady", !.printPromise[j] = "rejectedNotReady"]
      ELSE LET st1 == [st EXCEPT !.jobTimeout[j] = TRUE,
                                 !.printPromise[j] = "pending",
                                 !.printListenerVar[j] = TRUE]
           IN execSend(addPrintListener(st1, j), j, "startJob", "startJob", "")

\* variant of the 30 s callback with a fault: cleanup() is not called
printTimeoutCallbackWithoutCleanup(st, j) ==
    LET st1 == [st EXCEPT !.jobTimeout[j] = FALSE] IN
    IF ~st1.isCompleted[j]
      THEN SettlePrintPromise(st1, j, "resolvedFalse")
      ELSE st1

\* the 30 s setTimeout callback of printParticipantBadge
\* variant of the 30 s callback with a fault: it cleans up without resolving
printTimeoutCallbackWithoutResolve(st, j) ==
    cleanup([st EXCEPT !.jobTimeout[j] = FALSE], j)

printTimeoutCallback(st, j) ==
    LET st1 == [st EXCEPT !.jobTimeout[j] = FALSE] IN
    IF ~st1.isCompleted[j]
      THEN SettlePrintPromise(cleanup(st1, j), j, "resolvedFalse")
      ELSE st1

\* initializeSdk(), up to the first await
initializeSdk(st) ==
    LET st1 == [st EXCEPT !.opCalls[InitSdkOwner] = @ + 1] IN
    IF ~st1.isConnected
      THEN [st1 EXCEPT !.opResult[InitSdkOwner] = "false"]
      ELSE [send(st1, InitSdkOwner, "initSdk") EXCEPT !.opPc[InitSdkOwner] = "await"]

\* variant of the continuation with a fault: the error code is not read
initializeSdkResumeIgnoresCode(st) ==
    [Consume(st, InitSdkOwner) EXCEPT !.opPc[InitSdkOwner] = "idle",
                                      !.isSdkInitialized = TRUE,
                                      !.opResult[InitSdkOwner] = "true"]

initializeSdkResume(st) ==
    LET st1 == [Consume(st, InitSdkOwner) EXCEPT !.opPc[InitSdkOwner] = "idle"] IN
    IF st.promises[InitSdkOwner].value.errorCode = 0
      THEN [st1 EXCEPT !.isSdkInitialized = TRUE, !.opResult[InitSdkOwner] = "true"]
      ELSE [st1 EXCEPT !.opResult[InitSdkOwner] = "false"]

\* selectPrinter(printerName, port), up to the first await
selectPrinter(st, printerName, port) ==
    LET st1 == [st EXCEPT !.opCalls[SelectOwner] = @ + 1] IN
    IF ~st1.isConnected
      THEN [st1 EXCEPT !.opResult[SelectOwner] = "threw"]
      ELSE [send(st1, SelectOwner, "selectPrinter")
              EXCEPT !.opPc[SelectOwner] = "await",
                     !.opArgs = [printerName |-> printerName, port |-> port]]

\* variant of the continuation with a fault: the printer is recorded whatever
\* the error code
selectPrinterResumeRecordsAlways(st) ==
    LET st1 == [Consume(st, SelectOwner) EXCEPT !.opPc[SelectOwner] = "idle",
                                                !.selectedPrinter = st.opArgs.printerName,
                                                !.selectedPort = st.opArgs.port]
    IN IF st.promises[SelectOwner].value.errorCode = 0
         THEN [st1 EXCEPT !.opResult[SelectOwner] = "true"]
         ELSE [st1 EXCEPT !.opResult[SelectOwner] = "false"]

selectPrinterResume(st) ==
    LET st1 == [Consume(st, SelectOwner) EXCEPT !.opPc[SelectOwner] = "idle"] IN
    IF st.promises[SelectOwner].value.errorCode = 0
      THEN [st1 EXCEPT !.selectedPrinter = st.opArgs.printerName,
                       !.selectedPort = st.opArgs.port,
                       !.opResult[SelectOwner] = "true"]
      ELSE [st1 EXCEPT !.opResult[SelectOwner] = "false"]

\* getAllPrinters(), up to the first await; "threw" is the thrown Error
getAllPrinters(st) ==
    LET st1 == [st EXCEPT !.opCalls[GetPrintersOwner] = @ + 1] IN
    IF ~st1.isConnected
      THEN [st1 EXCEPT !.opResult[GetPrintersOwner] = "threw"]
      ELSE [send(st1, GetPrintersOwner, "getAllPrinters")
              EXCEPT !.opPc[GetPrintersOwner] = "await"]

\* getAllPrinters() after the await: the map of JSON.parse(info), {} on a
\* non-zero errorCode, or the SyntaxError of JSON.parse rethrown
getAllPrintersResume(st) ==
    LET st1 == [Consume(st, GetPrintersOwner) EXCEPT !.opPc[GetPrintersOwner] = "idle"]
        v == st.promises[GetPrintersOwner].value
    IN IF v.errorCode = 0
         THEN IF v.info = PrintersJson
                THEN [st1 EXCEPT !.opResult[GetPrintersOwner] = "printers"]
                ELSE [st1 EXCEPT !.opResult[GetPrintersOwner] = "threw"]
         ELSE [st1 EXCEPT !.opResult[GetPrintersOwner] = "noPrinters"]

\* JSON.parse of a resultAck.info; ok is FALSE when it throws SyntaxError
JsonParse(info) ==
    IF info = PrintersJson
      THEN [ok |-> TRUE, value |-> [n \in PrinterNames |-> "9100"]]
      ELSE [ok |-> FALSE, value |-> [n \in {} |-> ""]]

\* parseInt of a port as the daemon gives it
parseInt(s) == IF s = "9100" THEN 9100 ELSE -1

\* Object.keys(printers).map(...) of getPrinters
PrinterList(printers) ==
    {[name |-> n, port |-> parseInt(printers[n]), status |-> "available"]
       : n \in DOMAIN printers}

\* variant of getPrinters with a fault: no try/catch around getAllPrinters
getPrintersWithoutCatch(outcome) ==
    IF outcome = "printers"
      THEN [status |-> "returned", list |-> PrinterList(JsonParse(PrintersJson).value)]
      ELSE IF outcome = "noPrinters" THEN [status |-> "returned", list |-> {}]
      ELSE IF outcome = "threw" THEN [status |-> "threw", list |-> {}]
      ELSE [status |-> "pending", list |-> {}]

\* getPrinters(): what it returns, given the outcome of the getAllPrinters()
\* call it awaits ("printers" is the map parsed from PrintersJson); the Error
\* thrown by getAllPrinters is caught and [] is returned
getPrinters(outcome) ==
    IF outcome = "printers"
      THEN [status |-> "returned", list |-> PrinterList(JsonParse(PrintersJson).value)]
      ELSE IF outcome \in {"noPrinters", "threw"} THEN [status |-> "returned", list |-> {}]
      ELSE [status |-> "pending", list |-> {}]

\* connect(), up to `await this.socket.open(...)`
connect(st, c) ==
    LET st1 == open(st, TRUE) IN
    [st1 EXCEPT !.connectCalls[c] =
        [pc |-> "awaitOpen",
         socket |-> IF st.websocket = NoSocket THEN st1.websocket ELSE NoSocket]]

disconnect(st) ==
    [close(st, TRUE) EXCEPT !.isConnected = FALSE,
                            !.isSdkInitialized = FALSE,
                            !.selectedPrinter = NoPrinter,
                            !.selectedPort = NoPort]

(* ======================= actions ===================================== *)

\* ---- calls made by the UI
Connect(c) ==
    /\ ~MicrotaskPending
    /\ connectCalls[c].pc = "idle"
    /\ c <= scenario.connects
    /\ \A i \in ConnectIds : i < c => connectCalls[i].pc # "idle"
    /\ websocket = NoSocket => SocketsCreated(State) < scenario.sockets
    /\ Commit(connect(State, c))

Disconnect ==
    /\ ~MicrotaskPending
    /\ disconnectCalls < scenario.disconnects
    /\ Commit([disconnect(State) EXCEPT !.disconnectCalls = @ + 1])

InitializeSdk ==
    /\ ~MicrotaskPending
    /\ opPc[InitSdkOwner] = "idle"
    /\ opCalls[InitSdkOwner] < scenario.ops
    /\ Commit(initializeSdk(State))

SelectPrinter(printerName, port) ==
    /\ ~MicrotaskPending
    /\ opPc[SelectOwner] = "idle"
    /\ opCalls[SelectOwner] < scenario.ops
    /\ Commit(selectPrinter(State, printerName, port))

\* getPrinters(): the call of getAllPrinters() inside its try block
GetPrinters ==
    /\ ~MicrotaskPending
    /\ opPc[GetPrintersOwner] = "idle"
    /\ opCalls[GetPrintersOwner] < scenario.lists
    /\ Commit(getAllPrinters(State))

PrintParticipantBadge(j) ==
    /\ ~MicrotaskPending
    /\ jobPc[j] = "idle"
    /\ j <= scenario.jobs
    /\ \A i \in Jobs : i < j => jobPc[i] # "idle"
    /\ Commit(printParticipantBadge(State, j))

\* ---- continuations
ExecutePrintJobResume(j) ==
    /\ ExecRunnable(State, j)
    /\ Commit(executePrintJobResume(State, j))

PrintListenerResume(j, k) ==
    /\ ListenerRunnable(State, j, k)
    /\ Commit(printListenerResume(State, j, k))

InitializeSdkResume ==
    /\ OpRunnable(State, InitSdkOwner)
    /\ Commit(initializeSdkResume(State))

SelectPrinterResume ==
    /\ OpRunnable(State, SelectOwner)
    /\ Commit(selectPrinterResume(State))

GetPrintersResume ==
    /\ OpRunnable(State, GetPrintersOwner)
    /\ Commit(getAllPrintersResume(State))

\* ---- timers
SendTimeout(t) ==
    /\ ~MicrotaskPending
    /\ t \in sendTimers
    /\ Commit(sendTimeoutCallback(State, t))

PrintTimeout(j) ==
    /\ ~MicrotaskPending
    /\ jobTimeout[j]
    /\ Commit(printTimeoutCallback(
                  [State EXCEPT !.firedAfterCommit[j] = Len(sent[j]) = Len(TextElements) + 3], j))

\* the reconnect timer of closeCallback: open(this.openChangeCallback || undefined)
ReconnectTimeout ==
    /\ ~MicrotaskPending
    /\ reconnectTimers > 0
    /\ websocket = NoSocket => SocketsCreated(State) < scenario.sockets
    /\ Commit(open([State EXCEPT !.reconnectTimers = @ - 1], openChangeCallback))

\* ---- WebSocket events
\* the handshake of s succeeds: open event
SocketOpens(s) ==
    /\ ~MicrotaskPending
    /\ readyState[s] = "CONNECTING"
    /\ Commit(onopen([State EXCEPT !.readyState[s] = "OPEN"], s))

\* the connection of s fails: readyState becomes CLOSED, then the error event
\* and the close event are fired in the same task
SocketFails(s) ==
    /\ ~MicrotaskPending
    /\ readyState[s] \in {"CONNECTING", "OPEN", "CLOSING"}
    /\ Commit(onclose(onerror([State EXCEPT !.readyState[s] = "CLOSED",
                                            !.daemon = {r \in @ : r.socket # s}],
                              s), s))

\* s is closed cleanly (by the daemon, or the closing handshake ends): close event
SocketCloses(s) ==
    /\ ~MicrotaskPending
    /\ readyState[s] \in {"OPEN", "CLOSING"}
    /\ Commit(onclose([State EXCEPT !.readyState[s] = "CLOSED",
                                    !.daemon = {r \in @ : r.socket # s}], s))

\* ---- messages of the daemon
DaemonErrorCodes == {0, DaemonErrorCode}

\* the pushes that the scenario counts
Reports(msg) == msg.apiName = "commitJob" /\ (Completed(msg) \/ msg.errorCode # 0)

\* the daemon answers request r: a message carrying r's apiName
ResponseInfos(apiName, errorCode) ==
    IF errorCode # 0 THEN {""}
    ELSE IF apiName = "commitJob" THEN {"commitJob ok!"}
    ELSE IF apiName = "getAllPrinters" THEN {PrintersJson, NotJson}
    ELSE {""}

Infos == {"", "commitJob ok!", PrintersJson, NotJson}

DaemonResponds(r, errorCode, info) ==
    /\ ~MicrotaskPending
    /\ r \in daemon
    /\ readyState[r.socket] = "OPEN"
    /\ info \in ResponseInfos(r.apiName, errorCode)
    /\ LET msg == [apiName |-> r.apiName, errorCode |-> errorCode, info |-> info,
                   printCopies |-> 0, printPages |-> 0]
       IN Commit(messageRouter([State EXCEPT !.daemon = @ \ {r}], msg))

\* the daemon reports on a print: an unsolicited message named commitJob
PushMessages ==
    [apiName : {"commitJob"}, errorCode : DaemonErrorCodes, info : {""},
     printCopies : {0, 1}, printPages : {1}]

\* other unsolicited traffic, which messageRouter drops
StatusMessages ==
    [apiName : {"printStatus"}, errorCode : {0}, info : {""},
     printCopies : {0}, printPages : {0}]

DaemonPushes(s, msg) ==
    /\ ~MicrotaskPending
    /\ readyState[s] = "OPEN"
    /\ Reports(msg) => pushCount < scenario.pushes
    /\ Commit(messageRouter([State EXCEPT !.pushCount =
                                 IF Reports(msg) THEN @ + 1 ELSE @], msg))

Next ==
    \/ \E c \in ConnectIds : Connect(c)
    \/ Disconnect
    \/ InitializeSdk
    \/ \E p \in PrinterNames, q \in Ports : SelectPrinter(p, q)
    \/ \E j \in Jobs : PrintParticipantBadge(j)
    \/ \E j \in Jobs : ExecutePrintJobResume(j)
    \/ \E j \in Jobs, k \in Runs : PrintListenerResume(j, k)
    \/ InitializeSdkResume
    \/ SelectPrinterResume
    \/ GetPrinters
    \/ GetPrintersResume
    \/ \E t \in sendTimers : SendTimeout(t)
    \/ \E j \in Jobs : PrintTimeout(j)
    \/ ReconnectTimeout
    \/ \E s \in Sockets : SocketOpens(s)
    \/ \E s \in Sockets : SocketFails(s)
    \/ \E s \in Sockets : SocketCloses(s)
    \/ \E r \in daemon, e \in DaemonErrorCodes, i \in Infos : DaemonResponds(r, e, i)
    \/ \E s \in Sockets, msg \in PushMessages \cup StatusMessages : DaemonPushes(s, msg)

Spec == Init /\ [][Next]_vars

(* ======================= properties ================================== *)

TimeoutValue ==
    [errorCode |-> TimeoutErrorCode, info |-> "", Error |-> "Request timeout"]

\* the timer of the request (owner, n) is live
TimerLive(timers, owner, n) == \E t \in timers : t.owner = owner /\ t.n = n

\* a message is routed to handleEventPush: an unsolicited commitJob report, or
\* the daemon's answer to a commitJob request
PushDelivered ==
    \/ \E s \in Sockets, msg \in PushMessages : DaemonPushes(s, msg)
    \/ \E r \in daemon, e \in DaemonErrorCodes, i \in Infos :
          r.apiName = "commitJob" /\ DaemonResponds(r, e, i)

\* the commands of executePrintJob, in the order of the source
JobOrder ==
    <<<<"startJob", "">>, <<"InitDrawingBoard", "">>,
      <<"DrawLableText", TextElements[1]>>, <<"DrawLableText", TextElements[2]>>,
      <<"DrawLableText", TextElements[3]>>, <<"commitJob", "">>>>

IsPrefix(s, t) == Len(s) <= Len(t) /\ SubSeq(t, 1, Len(s)) = s

Settled == {"resolvedTrue", "resolvedFalse", "rejectedPush", "rejectedStep"}

\* C1: when the pool holds an entry for a name X other than commitJob and a
\* message named X is delivered, the promise of that entry goes from pending
\* to resolved with the message, the entry's timer is cleared, the entry is
\* removed, and no other entry and no other promise changes.
C1_ResponseResolvesItsEntry ==
    [][\A r \in daemon, e \in DaemonErrorCodes, i \in Infos :
          (/\ r.apiName # "commitJob"
           /\ r.apiName \in DOMAIN promisePool
           /\ DaemonResponds(r, e, i))
          => LET req == promisePool[r.apiName] IN
               /\ promises[req.owner].n = req.n
               /\ promises[req.owner].status = "pending"
               /\ promises'[req.owner] =
                     [status |-> "resolved", n |-> req.n,
                      value |-> [errorCode |-> e, info |-> i, Error |-> "none"],
                      resolveCalls |-> 1]
               /\ ~TimerLive(sendTimers', req.owner, req.n)
               /\ r.apiName \notin DOMAIN promisePool'
               /\ DOMAIN promisePool' = DOMAIN promisePool \ {r.apiName}
               /\ \A y \in DOMAIN promisePool' : promisePool'[y] = promisePool[y]
               /\ \A o \in Owners \ {req.owner} : promises'[o] = promises[o]
               /\ \A t \in sendTimers : ~(t.owner = req.owner /\ t.n = req.n)
                                          => t \in sendTimers'
      ]_vars

\* C1 witness: the initSdk request was resolved by the daemon's message while
\* the selectPrinter request is still pending with its timer
C1_Witness ==
    /\ promises[InitSdkOwner].status = "resolved"
    /\ promises[InitSdkOwner].value.Error = "none"
    /\ "initSdk" \notin DOMAIN promisePool
    /\ "selectPrinter" \in DOMAIN promisePool
    /\ promises[SelectOwner].status = "pending"
    /\ TimerLive(sendTimers, SelectOwner, promises[SelectOwner].n)

\* C2: when the timer of a request fires while the request's entry is in the
\* pool, the request's promise goes from pending to resolved with the
\* timeout response and the entry is discarded; and no step ever calls the
\* resolve function of a promise a second time.
C2_TimeoutResolvesOnce ==
    [][/\ \A t \in sendTimers :
            (/\ t.apiName \in DOMAIN promisePool
             /\ promisePool[t.apiName].timestamp = t.timestamp
             /\ SendTimeout(t))
            => /\ promises[t.owner].n = t.n
               /\ promises[t.owner].status = "pending"
               /\ promises'[t.owner] =
                     [status |-> "resolved", n |-> t.n, value |-> TimeoutValue,
                      resolveCalls |-> 1]
               /\ t.apiName \notin DOMAIN promisePool'
               /\ ~TimerLive(sendTimers', t.owner, t.n)
       /\ \A o \in Owners : promises'[o].resolveCalls <= 1
      ]_vars

\* C2 witness: a request was resolved by its timer, and its entry is gone
C2_Witness ==
    \E o \in Owners :
        /\ promises[o].status = "resolved"
        /\ promises[o].value = TimeoutValue
        /\ promises[o].resolveCalls = 1
        /\ \A x \in DOMAIN promisePool :
              ~(promisePool[x].owner = o /\ promisePool[x].n = promises[o].n)

\* C3: delivering the daemon's answer to a request that has already timed out
\* resolves no promise and removes no entry of the pool.
C3_LateResponseResolvesNothing ==
    [][\A r \in daemon, e \in DaemonErrorCodes, i \in Infos :
          (r.timedOut /\ DaemonResponds(r, e, i))
          => /\ promises' = promises
             /\ promisePool' = promisePool
      ]_vars

\* C4 as stated: a message routed as a push leaves the pool unchanged.
C4_PushLeavesPoolUnchanged ==
    [][PushDelivered => promisePool' = promisePool]_vars

\* C4: a message routed as a push resolves no promise and deletes no entry of
\* the pool; the pool changes only under the name endJob, which a listener
\* that sees a completed print sends before it returns.
C4_PushResolvesNothing ==
    [][PushDelivered
         => /\ \A o \in Owners :
                 /\ promises'[o].status = "resolved" => promises[o].status = "resolved"
                 /\ promises'[o].resolveCalls = promises[o].resolveCalls
                      \/ promises'[o].status = "pending"
            /\ DOMAIN promisePool \subseteq DOMAIN promisePool'
            /\ \A x \in DOMAIN promisePool' \ {"endJob"} :
                 x \in DOMAIN promisePool /\ promisePool'[x] = promisePool[x]
      ]_vars

\* C4 witness: a listener has answered a completion push with endJob while
\* the commitJob request of its job is still in the pool
C4_Witness ==
    \E j \in Jobs, k \in Runs :
        /\ listenerRuns[j][k].pc = "awaitEnd"
        /\ promises[ListenerOwner(j, k)].status = "pending"
        /\ "endJob" \in DOMAIN promisePool
        /\ "commitJob" \in DOMAIN promisePool
        /\ promisePool["commitJob"].owner = ExecOwner(j)
        /\ promises[ExecOwner(j)].status = "pending"

\* C5: the commands of a job are issued in the order startJob,
\* InitDrawingBoard, DrawLableText (name, id, department), commitJob, and
\* endJob only once commitJob has been issued.
C5_CommandsInOrder ==
    \A j \in Jobs :
        /\ IsPrefix(sent[j], JobOrder)
        /\ endJobSent[j] > 0 => sent[j] = JobOrder

\* C6: once startJob has failed, no further command of the job is sent.
C6_NothingAfterStartJobFailure ==
    [][\A j \in Jobs :
          (jobPc[j] = "threw" /\ Len(sent[j]) = 1)
          => sent'[j] = sent[j] /\ endJobSent'[j] = endJobSent[j]
      ]_vars

\* C7: printParticipantBadge called while isReady() is false throws the
\* not-ready error, sends nothing, registers no listener and starts no timer.
C7_NotReadyGate ==
    [][\A j \in Jobs :
          (/\ ~(isConnected /\ isSdkInitialized /\ selectedPrinter # NoPrinter)
           /\ PrintParticipantBadge(j))
          => /\ printPromise'[j] = "rejectedNotReady"
             /\ sent' = sent
             /\ daemon' = daemon
             /\ promisePool' = promisePool
             /\ promises' = promises
             /\ printListeners' = printListeners
             /\ sendTimers' = sendTimers
             /\ jobTimeout' = jobTimeout
      ]_vars

\* C7 witness: a call was refused although the session is connected and the
\* SDK initialized (no printer selected)
C7_Witness ==
    \E j \in Jobs :
        /\ jobPc[j] = "notReady"
        /\ printPromise[j] = "rejectedNotReady"
        /\ isConnected
        /\ isSdkInitialized
        /\ selectedPrinter = NoPrinter
        /\ sent[j] = <<>>

\* C8: in the step that settles a print job, the job's listener is not (or no
\* longer) in printListeners.
C8_ListenerRemovedWhenSettled ==
    [][\A j \in Jobs :
          (printPromise[j] = "pending" /\ printPromise'[j] \in Settled)
          => j \notin SeqToSet(printListeners')
      ]_vars

C10_OpenIsIdempotent ==
    [][(/\ websocket # NoSocket
        /\ \/ \E c \in ConnectIds : Connect(c)
           \/ ReconnectTimeout)
         => /\ websocket' = websocket
            /\ readyState' = readyState
      ]_vars

\* C10 witness: two connect() calls were made and one socket exists
C10_Witness ==
    /\ connectCalls[1].pc # "idle"
    /\ connectCalls[2].pc = "awaitOpen"
    /\ connectCalls[2].socket = NoSocket
    /\ SocketsCreated(State) = 1
    /\ websocket = 1

\* C11: connect() called while the socket is open returns true in that call
\* (open() resolves at once from the existing connection).
C11_SecondConnectReturns ==
    [][\A c \in ConnectIds :
          (getStatus(State) = "OPEN" /\ Connect(c))
          => connectCalls'[c].pc = "returnedTrue"
      ]_vars

\* C12: a connect() call does not stay pending once its socket has failed.
C12_ConnectCompletesOnFailure ==
    \A c \in ConnectIds :
        (connectCalls[c].pc = "awaitOpen" /\ connectCalls[c].socket # NoSocket)
        => readyState[connectCalls[c].socket] # "CLOSED"

\* C13: a print job that resolved true has sent endJob exactly once.
C13_EndJobExactlyOnce ==
    \A j \in Jobs : printPromise[j] = "resolvedTrue" => endJobSent[j] = 1

\* C14: when the 30 s timer fires on a job that has sent commitJob and whose
\* listener has seen no completed print, the job resolves false and its
\* listener is unregistered; and endJob is not sent for it afterwards.
C14_JobTimeoutResolvesFalse ==
    [][\A j \in Jobs :
          /\ (sent[j] = JobOrder /\ endJobSent[j] = 0 /\ PrintTimeout(j))
             => /\ printPromise[j] = "pending"
                /\ printPromise'[j] = "resolvedFalse"
                /\ j \notin SeqToSet(printListeners')
                /\ ~printListenerVar'[j]
                /\ endJobSent'[j] = 0
          /\ (printPromise[j] = "resolvedFalse" /\ endJobSent[j] = 0)
             => endJobSent'[j] = 0
      ]_vars

\* C14 witness: a job was resolved false by its timer, which fired after
\* commitJob was sent, without any endJob
C14_Witness ==
    \E j \in Jobs :
        /\ sent[j] = JobOrder
        /\ firedAfterCommit[j]
        /\ printPromise[j] = "resolvedFalse"
        /\ endJobSent[j] = 0
        /\ ~jobTimeout[j]
        /\ j \notin SeqToSet(printListeners)

\* C15: a push with a non-zero error code delivered while a job is pending
\* and listening makes the job reject and removes its listener.
C15_ErrorPushRejects ==
    [][\A j \in Jobs, s \in Sockets, msg \in PushMessages :
          (/\ printPromise[j] = "pending"
           /\ j \in SeqToSet(printListeners)
           /\ msg.errorCode # 0
           /\ DaemonPushes(s, msg))
          => /\ printPromise'[j] = "rejectedPush"
             /\ j \notin SeqToSet(printListeners')
      ]_vars

\* C16: a job is resolved true only by a listener run whose push reported a
\* completed print with error code 0.
C16_SuccessOnlyWithoutError ==
    [][\A j \in Jobs, k \in Runs :
          (/\ printPromise[j] = "pending"
           /\ PrintListenerResume(j, k)
           /\ printPromise'[j] = "resolvedTrue")
          => listenerRuns[j][k].errorCode = 0
      ]_vars

(* ======================= PrinterSocket.send on its own ================ *)
\* PrinterSocket.send is public: here it is called directly, by callers that
\* await the result, on a socket in any state.

SocketStates == {"CONNECTING", "OPEN", "CLOSING", "CLOSED"}
SendNames == {"initSdk", "selectPrinter", "getAllPrinters"}

SendInit ==
    /\ scenario = [sockets |-> 1, connects |-> 0, disconnects |-> 0,
                   ops |-> MaxOpCalls, lists |-> 0, jobs |-> 0, pushes |-> 0]
    /\ \E r \in SocketStates \cup {"none"} :
          /\ websocket = IF r = "none" THEN NoSocket ELSE 1
          /\ readyState = [s \in Sockets |-> IF s = 1 THEN r ELSE "none"]
    /\ customClose = FALSE
    /\ isProcessingCommitJob = FALSE
    /\ promisePool = EmptyPool
    /\ printListeners = <<>>
    /\ openChangeCallback = FALSE
    /\ sendTimers = {}
    /\ reconnectTimers = 0
    /\ isConnected = FALSE
    /\ isSdkInitialized = FALSE
    /\ selectedPrinter = NoPrinter
    /\ selectedPort = NoPort
    /\ promises = [o \in Owners |-> NoPromise]
    /\ daemon = {}
    /\ connectCalls = [c \in ConnectIds |-> [pc |-> "idle", socket |-> NoSocket]]
    /\ opPc = [o \in OpOwners |-> "idle"]
    /\ opCalls = [o \in OpOwners |-> 0]
    /\ opArgs = [printerName |-> NoPrinter, port |-> NoPort]
    /\ opResult = [o \in OpOwners |-> "none"]
    /\ disconnectCalls = 0
    /\ pushCount = 0
    /\ jobPc = [j \in Jobs |-> "idle"]
    /\ printPromise = [j \in Jobs |-> "none"]
    /\ printListenerVar = [j \in Jobs |-> FALSE]
    /\ isCompleted = [j \in Jobs |-> FALSE]
    /\ jobTimeout = [j \in Jobs |-> FALSE]
    /\ listenerRuns = [j \in Jobs |-> [k \in Runs |-> [pc |-> "none", errorCode |-> 0]]]
    /\ sent = [j \in Jobs |-> <<>>]
    /\ endJobSent = [j \in Jobs |-> 0]
    /\ firedAfterCommit = [j \in Jobs |-> FALSE]
    /\ callbackCalls = <<>>
    /\ UiIdle
    /\ legacy = LegacyIdle

\* a caller that is not awaiting a send calls send({apiName})
SendsMade == promises[InitSdkOwner].n + promises[SelectOwner].n + promises[GetPrintersOwner].n

SocketSend(owner, apiName) ==
    /\ promises[owner].status \in {"none", "consumed"}
    /\ SendsMade < scenario.ops
    /\ Commit(send(State, owner, apiName))

\* the caller's await returns
SocketSendReturns(owner) ==
    /\ Resolved(State, owner)
    /\ Commit(Consume(State, owner))

SendNext ==
    \/ \E o \in OpOwners, a \in SendNames : SocketSend(o, a)
    \/ \E o \in OpOwners : SocketSendReturns(o)
    \/ \E t \in sendTimers : SendTimeout(t)
    \/ \E r \in daemon, e \in DaemonErrorCodes, i \in Infos : DaemonResponds(r, e, i)

SendSpec == SendInit /\ [][SendNext]_vars

NotConnectedValue ==
    [errorCode |-> TimeoutErrorCode, info |-> "", Error |-> "WebSocket not connected"]

\* C17: send called while the socket is not open (undefined, connecting,
\* closing or closed) writes nothing to the socket and resolves the returned
\* promise, before it returns, with the not-connected response.
C17_SendWhileNotOpen ==
    [][\A o \in OpOwners, a \in SendNames :
          (getStatus(State) # "OPEN" /\ SocketSend(o, a))
          => /\ daemon' = daemon
             /\ promises'[o] = [status |-> "resolved", n |-> promises[o].n + 1,
                                value |-> NotConnectedValue, resolveCalls |-> 1]
      ]_vars

\* C17 witness: a send on a socket that is closing was resolved with the
\* not-connected response, and nothing was written
C17_Witness ==
    /\ getStatus(State) = "CLOSING"
    /\ \E o \in OpOwners :
          /\ promises[o].status = "resolved"
          /\ promises[o].value = NotConnectedValue
    /\ daemon = {}

\* C18: a send promise that is still pending can still be resolved: the pool
\* holds its request (the response handler and the timer resolve only the
\* request the pool holds under the name).
C18_PendingSendIsResolvable ==
    \A o \in Owners :
        promises[o].status = "pending"
        => \E x \in DOMAIN promisePool :
              promisePool[x].owner = o /\ promisePool[x].n = promises[o].n

\* C19: printParticipantBadge called while another call is still pending
\* sends no command.
C19_OneJobInFlight ==
    [][\A j \in Jobs :
          (/\ \E i \in Jobs \ {j} : printPromise[i] = "pending"
           /\ PrintParticipantBadge(j))
          => sent'[j] = <<>>
      ]_vars

\* C20: the daemon's answer to the pending commitJob request resolves that
\* request's promise with the answer and clears its entry and its timer.
C20_CommitJobResponseResolves ==
    [][\A r \in daemon, e \in DaemonErrorCodes, i \in Infos :
          (/\ r.apiName = "commitJob"
           /\ "commitJob" \in DOMAIN promisePool
           /\ promisePool["commitJob"].owner = r.owner
           /\ promisePool["commitJob"].n = r.n
           /\ DaemonResponds(r, e, i))
          => /\ promises'[r.owner].status = "resolved"
             /\ promises'[r.owner].value = [errorCode |-> e, info |-> i, Error |-> "none"]
             /\ "commitJob" \notin DOMAIN promisePool'
             /\ ~TimerLive(sendTimers', r.owner, r.n)
      ]_vars

\* C21: no operation throws or rejects: every failure is a result value.
C21_FailuresAreResults ==
    /\ \A o \in OpOwners : opResult[o] # "threw"
    /\ \A j \in Jobs :
          printPromise[j] \notin {"rejectedNotReady", "rejectedPush", "rejectedStep"}

\* C22: getPrinters returns the empty list when it is called while not
\* connected, on a non-zero error code (the timeout response included) and on
\* an info that is not JSON; on error code 0 with a JSON map it returns one
\* entry per device name with the numeric port; it never throws.
C22_GetPrintersNeverThrows ==
    [][/\ (~isConnected /\ GetPrinters)
          => getPrinters(opResult'[GetPrintersOwner]) = [status |-> "returned", list |-> {}]
       /\ GetPrintersResume
          => LET v == promises[GetPrintersOwner].value
                 ret == getPrinters(opResult'[GetPrintersOwner])
             IN /\ ret.status = "returned"
                /\ (v.errorCode # 0 \/ ~JsonParse(v.info).ok) => ret.list = {}
                /\ (v.errorCode = 0 /\ JsonParse(v.info).ok)
                   => ret.list = {[name |-> n, port |-> 9100, status |-> "available"]
                                    : n \in PrinterNames}
       /\ getPrinters(opResult'[GetPrintersOwner]).status # "threw"
      ]_vars

\* C22 witness: getAllPrinters was answered with error code 0 and an info
\* that is not JSON, and threw; getPrinters returned []
C22_Witness ==
    /\ opResult[GetPrintersOwner] = "threw"
    /\ promises[GetPrintersOwner].status = "consumed"
    /\ getPrinters(opResult[GetPrintersOwner]) = [status |-> "returned", list |-> {}]

(* ======================= the pages that print ======================== *)
\* One call of a handler of the pages against the printer service:
\* handlePrint of the scanner page, handlePrint of ParticipantCard, or
\* testPrint of the printer management page.

UiJob == 1
Handlers == {"page", "card", "testPrint"}

PrinterNotReadyAlert == "Printer not ready. Please check the printer connection in the admin panel."
StoreErrorAlert == "An error occurred while processing the request."
PrintedAlert == "Label printed successfully!"
PrintFailedAlert == "Attendance marked successfully, but printing failed"
TestPrintedMessage == "Test label printed successfully with current settings."
TestFailedMessage == "Test print failed"

\* a session that has never connected, or (ready) one that is connected with
\* the SDK initialised and a printer selected, before any job
SessionInit(sc, ready) ==
    /\ scenario = sc
    /\ websocket = IF ready THEN 1 ELSE NoSocket
    /\ readyState = [s \in Sockets |-> IF ready /\ s = 1 THEN "OPEN" ELSE "none"]
    /\ openChangeCallback = ready
    /\ isConnected = ready
    /\ isSdkInitialized = ready
    /\ selectedPrinter = IF ready THEN "ThermalPrinterA" ELSE NoPrinter
    /\ selectedPort = IF ready THEN 9100 ELSE NoPort
    /\ customClose = FALSE
    /\ isProcessingCommitJob = FALSE
    /\ promisePool = EmptyPool
    /\ printListeners = <<>>
    /\ sendTimers = {}
    /\ reconnectTimers = 0
    /\ promises = [o \in Owners |-> NoPromise]
    /\ daemon = {}
    /\ connectCalls = [c \in ConnectIds |-> [pc |-> "idle", socket |-> NoSocket]]
    /\ opPc = [o \in OpOwners |-> "idle"]
    /\ opCalls = [o \in OpOwners |-> 0]
    /\ opArgs = [printerName |-> NoPrinter, port |-> NoPort]
    /\ opResult = [o \in OpOwners |-> "none"]
    /\ disconnectCalls = 0
    /\ pushCount = 0
    /\ jobPc = [j \in Jobs |-> "idle"]
    /\ printPromise = [j \in Jobs |-> "none"]
    /\ printListenerVar = [j \in Jobs |-> FALSE]
    /\ isCompleted = [j \in Jobs |-> FALSE]
    /\ jobTimeout = [j \in Jobs |-> FALSE]
    /\ listenerRuns = [j \in Jobs |-> [k \in Runs |-> [pc |-> "none", errorCode |-> 0]]]
    /\ sent = [j \in Jobs |-> <<>>]
    /\ endJobSent = [j \in Jobs |-> 0]
    /\ firedAfterCommit = [j \in Jobs |-> FALSE]
    /\ callbackCalls = <<>>

\* the session when the page is used: never connected, or ready
UiInit ==
    /\ \E ready \in BOOLEAN :
          SessionInit([sockets |-> 1, connects |-> 0, disconnects |-> 0,
                       ops |-> 0, lists |-> 0, jobs |-> 1, pushes |-> 1], ready)
    /\ UiIdle
    /\ legacy = LegacyIdle

\* handlePrint, up to `await supabase...update({ attended: true })`.
\* ParticipantCard returns before it when the printer is not ready; the scanner
\* page's `printer.initializePrinter()` is not a method of PrinterService, the
\* TypeError is caught and the handler goes on.
HandlePrint(h) ==
    /\ ~MicrotaskPending
    /\ uiPc = "idle"
    /\ h \in {"page", "card"}
    /\ handler' = h
    /\ IF h = "card" /\ ~isReady(State)
         THEN /\ alerts' = alerts \cup {PrinterNotReadyAlert}
              /\ uiPc' = "done"
         ELSE /\ alerts' = alerts
              /\ uiPc' = "awaitUpdate"
    /\ UNCHANGED attended
    /\ CommitService(State)

\* the store answers the update; without an error the handler goes on to
\* `await printParticipantLabel(participant)` / `await printParticipantBadge(...)`
StoreResponds(updateError) ==
    /\ ~MicrotaskPending
    /\ uiPc = "awaitUpdate"
    /\ IF updateError
         THEN /\ alerts' = alerts \cup {StoreErrorAlert}
              /\ uiPc' = "done"
              /\ UNCHANGED attended
              /\ CommitService(State)
         ELSE /\ attended' = TRUE
              /\ uiPc' = "awaitPrint"
              /\ UNCHANGED alerts
              /\ CommitService(printParticipantBadge(State, UiJob))
    /\ UNCHANGED handler

\* testPrint, up to `await printParticipantBadge(testParticipant)`
TestPrint ==
    /\ ~MicrotaskPending
    /\ uiPc = "idle"
    /\ handler' = "testPrint"
    /\ uiPc' = "awaitPrint"
    /\ UNCHANGED <<attended, alerts>>
    /\ CommitService(printParticipantBadge(State, UiJob))

\* what the handler shows when its await of the print ends: the statement
\* after the await when the promise was resolved (the value is not read),
\* the catch block when it was rejected
PrintReport(h, outcome) ==
    IF outcome \in {"resolvedTrue", "resolvedFalse"}
      THEN IF h = "testPrint" THEN TestPrintedMessage ELSE PrintedAlert
      ELSE IF h = "testPrint" THEN TestFailedMessage ELSE PrintFailedAlert

\* the await of the print ends
PrintReturns ==
    /\ uiPc = "awaitPrint"
    /\ printPromise[UiJob] \in Settled \cup {"rejectedNotReady"}
    /\ alerts' = alerts \cup {PrintReport(handler, printPromise[UiJob])}
    /\ uiPc' = "done"
    /\ UNCHANGED <<handler, attended>>
    /\ CommitService(State)

UiNext ==
    \/ \E h \in Handlers : HandlePrint(h)
    \/ \E e \in BOOLEAN : StoreResponds(e)
    \/ TestPrint
    \/ PrintReturns
    \/ \E j \in Jobs : ExecutePrintJobResume(j)
    \/ \E j \in Jobs, k \in Runs : PrintListenerResume(j, k)
    \/ \E t \in sendTimers : SendTimeout(t)
    \/ \E j \in Jobs : PrintTimeout(j)
    \/ \E r \in daemon, e \in DaemonErrorCodes, i \in Infos : DaemonResponds(r, e, i)
    \/ \E s \in Sockets, msg \in PushMessages \cup StatusMessages : DaemonPushes(s, msg)

UiSpec == UiInit /\ [][UiNext]_vars

\* C23: in both handlePrint implementations a call that ended without an
\* error of the store has left the participant attended, whatever the state
\* of the printer and whatever became of the print.
C23_AttendanceIndependentOfPrinter ==
    (handler \in {"page", "card"} /\ uiPc = "done" /\ StoreErrorAlert \notin alerts)
    => attended

\* C24: a job whose printParticipantBadge result was false is never reported
\* as printed.
C24_FalseResultIsNotSuccess ==
    printPromise[UiJob] = "resolvedFalse"
    => alerts \cap {PrintedAlert, TestPrintedMessage} = {}

\* C25: after an intentional close nothing reconnects by itself: a reconnect
\* timer that fires when close(true) has been called since it was set
\* constructs no socket, and the session does not become connected again.
C25_NoReconnectAfterIntentionalClose ==
    [][(customClose /\ ReconnectTimeout)
       => /\ websocket' = websocket
          /\ readyState' = readyState
      ]_vars

\* C26: when the session is connected and its socket is closed without the
\* caller having asked for it (the socket is OPEN, not CLOSING), the close
\* arms the reconnect timer and drops the socket, so that the timer opens a
\* new one.
C26_UnexpectedCloseArmsReconnect ==
    [][\A s \in Sockets :
          (/\ s = websocket
           /\ readyState[s] = "OPEN"
           /\ isConnected
           /\ (SocketCloses(s) \/ SocketFails(s)))
          => /\ reconnectTimers' > reconnectTimers
             /\ websocket' = NoSocket
      ]_vars

\* no socket is open: the requests that are pending were written to a socket
\* that has been closed since
NoOpenSocket == \A s \in Sockets : readyState[s] # "OPEN"

\* C27: a close of the socket (a close event, a failure, or disconnect())
\* leaves every pending request, its entry and its timer as they were; and
\* when the timer of a request whose entry is in the pool fires after the
\* socket was closed, the request resolves with the timeout response.
C27_CloseKeepsRequestTimers ==
    [][/\ (Disconnect \/ \E s \in Sockets : SocketCloses(s) \/ SocketFails(s))
          => /\ sendTimers' = sendTimers
             /\ promisePool' = promisePool
             /\ promises' = promises
       /\ \A t \in sendTimers :
            (/\ NoOpenSocket
             /\ t.apiName \in DOMAIN promisePool
             /\ promisePool[t.apiName].timestamp = t.timestamp
             /\ promises[t.owner].status = "pending"
             /\ SendTimeout(t))
            => /\ promises'[t.owner].status = "resolved"
               /\ promises'[t.owner].value = TimeoutValue
               /\ promises'[t.owner].n = t.n
      ]_vars

\* C27 witness: the socket was closed while the initSdk request was
\* outstanding (the daemon no longer holds the request), and the request's
\* timer has resolved it with the timeout response
C27_Witness ==
    /\ NoOpenSocket
    /\ promises[InitSdkOwner].status = "resolved"
    /\ promises[InitSdkOwner].value = TimeoutValue
    /\ \A r \in daemon : r.owner # InitSdkOwner

\* C28: when a request named X is sent while an earlier request named X is
\* pending, the pool's one entry for X becomes the entry of the later request;
\* and when a message named X (not commitJob) then arrives while both are
\* pending, be it the answer to the earlier or to the later request, it
\* resolves the promise of the later request and leaves the earlier pending.
C28_SecondRequestTakesResponse ==
    [][/\ \A x \in DOMAIN promisePool :
            (/\ promises[promisePool[x].owner].status = "pending"
             /\ promises[promisePool[x].owner].n = promisePool[x].n
             /\ x \in DOMAIN promisePool'
             /\ promisePool'[x] # promisePool[x])
            => LET second == promisePool'[x] IN
                 /\ second.owner # promisePool[x].owner
                 /\ promises[second.owner].status # "pending"
                 /\ promises'[second.owner].status = "pending"
                 /\ promises'[second.owner].n = second.n
                 /\ promises'[promisePool[x].owner] = promises[promisePool[x].owner]
       /\ \A r \in daemon, e \in DaemonErrorCodes, i \in Infos :
            (/\ r.apiName # "commitJob"
             /\ r.apiName \in DOMAIN promisePool
             /\ \E first \in Owners \ {promisePool[r.apiName].owner} :
                   /\ promises[first].status = "pending"
                   /\ \E q \in daemon : q.owner = first /\ q.n = promises[first].n
                                        /\ q.apiName = r.apiName
             /\ promises[promisePool[r.apiName].owner].status = "pending"
             /\ DaemonResponds(r, e, i))
            => LET second == promisePool[r.apiName] IN
                 /\ promises'[second.owner].status = "resolved"
                 /\ promises'[second.owner].n = second.n
                 /\ promises'[second.owner].value =
                       [errorCode |-> e, info |-> i, Error |-> "none"]
                 /\ \A o \in Owners \ {second.owner} : promises'[o] = promises[o]
                 /\ r.apiName \notin DOMAIN promisePool'
      ]_vars

\* C28 witness: two jobs each sent startJob; the daemon has answered the
\* first job's request only, and that answer has resolved the second job's
\* request, while the first job's is still pending
C28_Witness ==
    /\ promises[ExecOwner(2)].status = "resolved"
    /\ promises[ExecOwner(2)].value.Error = "none"
    /\ sent[2] = <<<<"startJob", "">>>>
    /\ promises[ExecOwner(1)].status = "pending"
    /\ sent[1] = <<<<"startJob", "">>>>
    /\ \E r \in daemon : r.owner = ExecOwner(2) /\ r.apiName = "startJob"
    /\ \A r \in daemon : r.owner # ExecOwner(1)

(* ======================= pushes to several listeners ================= *)
\* A ready session in which the caller starts jobs while the daemon stays
\* connected, answers or leaves unanswered, and reports; a job may run into
\* its 30 s timer, the 10 s timers of single requests do not fire.

PushInit ==
    /\ SessionInit([sockets |-> 1, connects |-> 0, disconnects |-> 0,
                    ops |-> 0, lists |-> 0, jobs |-> MaxJobs, pushes |-> 1], TRUE)
    /\ UiIdle
    /\ legacy = LegacyIdle

PushNext ==
    \/ \E j \in Jobs : PrintParticipantBadge(j)
    \/ \E j \in Jobs : ExecutePrintJobResume(j)
    \/ \E j \in Jobs, k \in Runs : PrintListenerResume(j, k)
    \/ \E j \in Jobs : PrintTimeout(j)
    \/ \E r \in daemon, e \in DaemonErrorCodes, i \in Infos : DaemonResponds(r, e, i)
    \/ \E s \in Sockets, msg \in PushMessages \cup StatusMessages : DaemonPushes(s, msg)

PushSpec == PushInit /\ [][PushNext]_vars

\* what the step that delivers msg to handleEventPush has done when it ends:
\* every listener registered before the step has run once, in the order of
\* registration, up to its first await; no other listener has run
DeliveredToAll(msg) ==
    LET registered == SeqToSet(printListeners) IN
    /\ \A j \in Jobs \ registered :
          /\ endJobSent'[j] = endJobSent[j]
          /\ printPromise'[j] = printPromise[j]
          /\ listenerRuns'[j] = listenerRuns[j]
    /\ Completed(msg)
       => /\ \A j \in registered :
                /\ endJobSent'[j] = endJobSent[j] + 1
                /\ Cardinality({k \in Runs : listenerRuns'[j][k] # listenerRuns[j][k]}) = 1
          /\ printListeners # <<>>
             => /\ "endJob" \in DOMAIN promisePool'
                /\ promisePool'["endJob"].owner[1] = "listener"
                /\ promisePool'["endJob"].owner[2] = printListeners[Len(printListeners)]
    /\ (~Completed(msg) /\ msg.errorCode # 0)
       => /\ \A j \in registered :
                /\ endJobSent'[j] = endJobSent[j]
                /\ printPromise[j] = "pending" => printPromise'[j] = "rejectedPush"
                /\ ~printListenerVar'[j]
          /\ printListeners' = <<>>
    /\ (~Completed(msg) /\ msg.errorCode = 0)
       => /\ printListeners' = printListeners
          /\ endJobSent' = endJobSent
          /\ printPromise' = printPromise

\* C29: a message routed to handleEventPush is delivered within the step
\* that receives it to every listener registered at that moment, once each,
\* in registration order.
C29_PushReachesEveryListener ==
    [][/\ \A s \in Sockets, msg \in PushMessages :
            DaemonPushes(s, msg) => DeliveredToAll(msg)
       /\ \A r \in daemon, e \in DaemonErrorCodes, i \in Infos :
            (r.apiName = "commitJob" /\ DaemonResponds(r, e, i))
            => DeliveredToAll([apiName |-> "commitJob", errorCode |-> e, info |-> i,
                               printCopies |-> 0, printPages |-> 0])
      ]_vars

\* C29 witness: a completion report arrived while the listeners of both jobs
\* were registered; each has sent endJob once, the second job's last
C29_Witness ==
    /\ pushCount = 1
    /\ printListeners = <<1, 2>>
    /\ endJobSent = [j \in Jobs |-> 1]
    /\ listenerRuns[1][1].pc = "awaitEnd"
    /\ listenerRuns[2][1].pc = "awaitEnd"
    /\ "endJob" \in DOMAIN promisePool
    /\ promisePool["endJob"].owner = ListenerOwner(2, 1)

(* ======================= listeners of other callers ================== *)
\* PrinterSocket with listeners of its own: besides the job of PrinterService,
\* a caller of the public addPrintListener / removePrintListener registers
\* callbacks, one of which throws.  The daemon stays connected; the 10 s
\* timers of single requests do not fire.

ListenerInit ==
    /\ SessionInit([sockets |-> 1, connects |-> 0, disconnects |-> 0,
                    ops |-> 0, lists |-> 0, jobs |-> 1, pushes |-> 1], TRUE)
    /\ UiIdle
    /\ legacy = LegacyIdle

AddPrintListener(c) ==
    /\ ~MicrotaskPending
    /\ c \notin SeqToSet(printListeners)
    /\ Commit(addPrintListener(State, c))

RemovePrintListener(c) ==
    /\ ~MicrotaskPending
    /\ c \in SeqToSet(printListeners)
    /\ Commit(removePrintListener(State, c))

\* a message of the daemon, while the calls of callbacks are within the bound
ListenerPush(s, msg) ==
    /\ Len(callbackCalls) < MaxCallbackCalls
    /\ DaemonPushes(s, msg)

ListenerNext ==
    \/ \E c \in Callbacks : AddPrintListener(c)
    \/ \E c \in Callbacks : RemovePrintListener(c)
    \/ \E j \in Jobs : PrintParticipantBadge(j)
    \/ \E j \in Jobs : ExecutePrintJobResume(j)
    \/ \E j \in Jobs, k \in Runs : PrintListenerResume(j, k)
    \/ \E j \in Jobs : PrintTimeout(j)
    \/ \E r \in daemon, e \in DaemonErrorCodes, i \in Infos : DaemonResponds(r, e, i)
    \/ \E s \in Sockets, msg \in PushMessages \cup StatusMessages : ListenerPush(s, msg)

ListenerSpec == ListenerInit /\ [][ListenerNext]_vars

\* the callbacks called since the state before the step
CalledInStep ==
    {callbackCalls'[i] : i \in (Len(callbackCalls) + 1) .. Len(callbackCalls')}

\* C30: when a report is delivered, every callback registered at that moment
\* is called, also when one of them throws, and a report with a non-zero
\* error code clears isProcessingCommitJob.
C30_ThrowingListenerIsIsolated ==
    [][\A s \in Sockets, msg \in PushMessages :
          ListenerPush(s, msg)
          => /\ \A c \in Callbacks :
                   c \in SeqToSet(printListeners) => c \in CalledInStep
             /\ msg.errorCode # 0 => ~isProcessingCommitJob'
      ]_vars

\* C31: initializeSdk called while not connected sends nothing and returns
\* false; called while connected it sends initSdk, and when the response is
\* read it sets isSdkInitialized and returns true if the error code is 0, and
\* otherwise returns false and leaves isSdkInitialized as it was.
C31_InitializeSdkFollowsResponse ==
    [][/\ (InitializeSdk /\ ~isConnected)
          => /\ opResult'[InitSdkOwner] = "false"
             /\ daemon' = daemon
             /\ promisePool' = promisePool
             /\ sendTimers' = sendTimers
             /\ isSdkInitialized' = isSdkInitialized
       /\ (InitializeSdk /\ isConnected)
          => /\ "initSdk" \in DOMAIN promisePool'
             /\ promisePool'["initSdk"].owner = InitSdkOwner
             /\ isSdkInitialized' = isSdkInitialized
       /\ InitializeSdkResume
          => IF promises[InitSdkOwner].value.errorCode = 0
               THEN isSdkInitialized' /\ opResult'[InitSdkOwner] = "true"
               ELSE /\ isSdkInitialized' = isSdkInitialized
                    /\ opResult'[InitSdkOwner] = "false"
      ]_vars

\* C31 witness: on a connection that was never dropped the daemon answered
\* initSdk (it holds the request no longer) with a non-zero error code;
\* initializeSdk returned false and the SDK is not initialised
C31_Witness ==
    /\ isConnected
    /\ readyState = [s \in Sockets |-> IF s = 1 THEN "OPEN" ELSE "none"]
    /\ promises[InitSdkOwner].status = "consumed"
    /\ \A r \in daemon : r.owner # InitSdkOwner
    /\ opResult[InitSdkOwner] = "false"
    /\ ~isSdkInitialized

\* C32: a printer is selected only in a session whose SDK is initialised.
C32_SelectedImpliesSdkReady ==
    selectedPrinter # NoPrinter => isSdkInitialized

\* C33: when selectPrinter reads the response, it records the name and port
\* it was given and returns true if the error code is 0; on any other code,
\* the timeout's included, it returns false and leaves selectedPrinter,
\* selectedPort, isConnected and isSdkInitialized as they were.
C33_SelectPrinterFollowsResponse ==
    [][SelectPrinterResume
       => /\ IF promises[SelectOwner].value.errorCode = 0
               THEN /\ selectedPrinter' = opArgs.printerName
                    /\ selectedPort' = opArgs.port
                    /\ opArgs.printerName \in PrinterNames
                    /\ opArgs.port \in Ports
                    /\ opResult'[SelectOwner] = "true"
               ELSE /\ selectedPrinter' = selectedPrinter
                    /\ selectedPort' = selectedPort
                    /\ opResult'[SelectOwner] = "false"
          /\ isConnected' = isConnected
          /\ isSdkInitialized' = isSdkInitialized
      ]_vars

\* C33 witness: the selectPrinter request timed out (the daemon still holds
\* it unanswered); selectPrinter returned false and no printer is selected
C33_Witness ==
    /\ promises[SelectOwner].status = "consumed"
    /\ \E r \in daemon : r.owner = SelectOwner /\ r.timedOut
    /\ opResult[SelectOwner] = "false"
    /\ selectedPrinter = NoPrinter
    /\ selectedPort = NoPort
    /\ isConnected

\* C34: when InitDrawingBoard or a DrawLableText has failed, whichever it
\* was, the commands sent stop at the failing one, commitJob is not among
\* them, and the job has failed: it is rejected or resolved false.
C34_StepFailureFailsJob ==
    \A j \in Jobs :
        (jobPc[j] = "threw" /\ Len(sent[j]) >= 2)
        => /\ IsPrefix(sent[j], JobOrder)
           /\ Len(sent[j]) <= Len(TextElements) + 2
           /\ printPromise[j] \in {"rejectedStep", "rejectedPush", "resolvedFalse"}

\* C35: a job cannot hang: as long as its promise is pending its 30 s timer is
\* live, whatever the daemon and the socket do, and when the timer fires the
\* promise is pending no longer.
C35_PendingJobHasTimer ==
    [][\A j \in Jobs :
          /\ printPromise'[j] = "pending" => jobTimeout'[j]
          /\ PrintTimeout(j) => printPromise'[j] \in Settled
      ]_vars

\* C35 witness: startJob was sent and never answered, the socket is closed,
\* and the job has ended by its timer
C35_Witness ==
    \E j \in Jobs :
        /\ NoOpenSocket
        /\ sent[j] = <<<<"startJob", "">>>>
        /\ jobPc[j] = "startJob"
        /\ printPromise[j] = "resolvedFalse"

(* ======================= the retrying selectPrinter ================== *)
\* The PrinterService that calls the vendor functions of `window` directly:
\* one invocation of its selectPrinter, with the callbacks of the SDK and the
\* loss of the connection as the environment.

maxRetries == 2

RetryInit ==
    /\ SessionInit([sockets |-> 1, connects |-> 0, disconnects |-> 0,
                    ops |-> 0, lists |-> 0, jobs |-> 0, pushes |-> 0], FALSE)
    /\ UiIdle
    /\ \E c \in BOOLEAN, i \in BOOLEAN, f \in BOOLEAN :
          legacy = [LegacyIdle EXCEPT !.isConnected = c,
                                      !.isSdkInitialized = c /\ i,
                                      !.hasSelectPrinter = f]

LegacyReturn(l, value) == [l EXCEPT !.pc = "returned", !.result = value]

\* attemptSelectPrinter: window.selectPrinter(printerName, port, callback)
attemptSelectPrinter(l) == [l EXCEPT !.pc = "awaitAttempt", !.calls = @ + 1]

\* variant of afterBackoff with a fault: isConnected is not read again
afterBackoffWithoutCheck(l) ==
    attemptSelectPrinter([l EXCEPT !.attempt = @ + 1])

\* selectPrinter after `await this.delay(2000)`: the next attempt, unless the
\* connection is gone
afterBackoff(l) ==
    IF ~l.isConnected THEN LegacyReturn(l, "false")
    ELSE attemptSelectPrinter([l EXCEPT !.attempt = @ + 1])

\* selectPrinter, from the check of isSdkInitialized on
legacyAfterConnected(l) ==
    IF ~l.isSdkInitialized
      THEN [l EXCEPT !.pc = "awaitInitSdk"]
      ELSE [l EXCEPT !.pc = "delay3000"]

\* selectPrinter(printerName, port), up to its first await; calls, outcomes
\* and lostInCall describe the invocation in progress
LegacySelectPrinter ==
    /\ legacy.pc \in {"idle", "returned"}
    /\ legacy.invocations < MaxInvocations
    /\ LET l == [legacy EXCEPT !.invocations = @ + 1, !.calls = 0, !.attempt = 0,
                               !.outcomes = <<>>, !.lostInCall = FALSE,
                               !.result = "none"]
       IN Commit([State EXCEPT !.legacy =
                     IF ~l.isConnected THEN LegacyReturn(l, "false")
                     ELSE legacyAfterConnected(l)])

\* the callback of window.initSdk inside initializeSdk
LegacyInitSdkCallback(error) ==
    /\ legacy.pc = "awaitInitSdk"
    /\ Commit([State EXCEPT !.legacy =
                  IF error THEN LegacyReturn(legacy, "false")
                  ELSE [legacy EXCEPT !.isSdkInitialized = TRUE, !.pc = "delay3000"]])

\* a timer of delay(ms) fires and the code after the await runs
LegacyDelayEnds ==
    /\ legacy.pc \in {"delay3000", "delay100", "delay500", "delay2000"}
    /\ Commit([State EXCEPT !.legacy =
          CASE legacy.pc = "delay3000" ->
                 IF ~legacy.isConnected THEN LegacyReturn(legacy, "false")
                 ELSE IF ~legacy.hasSelectPrinter THEN LegacyReturn(legacy, "false")
                 ELSE [legacy EXCEPT !.selectedPrinter = NoPrinter,
                                     !.attempt = 0,
                                     !.pc = "delay100"]
            [] legacy.pc = "delay100" -> [legacy EXCEPT !.pc = "awaitGetAllPrinters"]
            [] legacy.pc = "delay500" -> attemptSelectPrinter(legacy)
            [] OTHER -> afterBackoff(legacy)])

\* the callback of window.getAllPrinters inside getPrinters: whatever it
\* reports, `await this.getPrinters()` of the first attempt ends without throwing
LegacyWarmupEnds ==
    /\ legacy.pc = "awaitGetAllPrinters"
    /\ Commit([State EXCEPT !.legacy.pc = "delay500"])

\* the callback of window.selectPrinter: an error, or resultAck.errorCode
LegacySelectPrinterCallback(error, errorCode) ==
    /\ legacy.pc = "awaitAttempt"
    /\ Commit([State EXCEPT !.legacy =
          IF ~error /\ errorCode = 0
            THEN LegacyReturn([legacy EXCEPT !.selectedPrinter = "ThermalPrinterA"], "true")
            ELSE LET l == [legacy EXCEPT !.outcomes =
                                Append(@, IF error THEN -1 ELSE errorCode)] IN
                 IF l.attempt < maxRetries - 1
                   THEN [l EXCEPT !.pc = "delay2000"]
                   ELSE LegacyReturn(l, "false")])

\* the disconnect callback given to window.getInstance
LegacyDisconnected ==
    /\ legacy.isConnected
    /\ Commit([State EXCEPT !.legacy =
                  [legacy EXCEPT !.isConnected = FALSE,
                                 !.isSdkInitialized = FALSE,
                                 !.selectedPrinter = NoPrinter,
                                 !.lostInCall = legacy.pc \notin {"idle", "returned"}]])

RetryNext ==
    \/ LegacySelectPrinter
    \/ \E error \in BOOLEAN : LegacyInitSdkCallback(error)
    \/ LegacyDelayEnds
    \/ LegacyWarmupEnds
    \/ \E error \in BOOLEAN, e \in DaemonErrorCodes : LegacySelectPrinterCallback(error, e)
    \/ LegacyDisconnected

RetrySpec == RetryInit /\ [][RetryNext]_vars

\* the loop of selectPrinter: at most maxRetries calls of window.selectPrinter
\* in one invocation, each but the last reported as failed; true is returned
\* with the first call that reports error code 0, and nothing is called after
\* a return; a backoff that ends with the connection lost makes no call
RetryLoopBounded ==
    /\ legacy'.calls <= maxRetries
    /\ Len(legacy'.outcomes) \in {legacy'.calls - 1, legacy'.calls}
    /\ legacy'.result = "true"
       => /\ legacy'.pc = "returned"
          /\ legacy'.calls >= 1
          /\ Len(legacy'.outcomes) = legacy'.calls - 1
    /\ (legacy.pc = "returned" /\ legacy'.invocations = legacy.invocations)
       => legacy'.calls = legacy.calls /\ legacy'.result = legacy.result
    /\ (legacy.pc = "delay2000" /\ ~legacy.isConnected /\ LegacyDelayEnds)
       => legacy'.calls = legacy.calls /\ legacy'.result = "false"

\* false is returned when every attempt has failed, or the connection is lost
AllFailedOrLost ==
    \/ legacy'.calls = maxRetries /\ Len(legacy'.outcomes) = maxRetries
    \/ ~legacy'.isConnected
    \/ legacy'.lostInCall

\* C36, as the spec states it: one invocation calls window.selectPrinter at
\* most twice, stops at the first success, makes no attempt after a backoff
\* during which the connection was lost, and returns false only after all
\* attempts failed or the connection was lost.
C36_FalseOnlyAfterAttempts ==
    [][/\ RetryLoopBounded
       /\ legacy'.result = "false" => AllFailedOrLost
      ]_vars

\* C36, as the code has it: false is also returned, before any attempt, when
\* the SDK could not be initialised or window.selectPrinter is no function.
C36_RetryLoop ==
    [][/\ RetryLoopBounded
       /\ legacy'.result = "false"
          => \/ AllFailedOrLost
             \/ /\ legacy'.calls = 0
                /\ ~legacy'.isSdkInitialized \/ ~legacy'.hasSelectPrinter
      ]_vars

\* C36 witness: the first attempt failed, the second reported error code 0
\* and selectPrinter returned true
C36_Witness ==
    /\ legacy.result = "true"
    /\ legacy.calls = maxRetries
    /\ Len(legacy.outcomes) = 1
    /\ legacy.selectedPrinter = "ThermalPrinterA"

\* C37: once the promise of a print job is settled (resolved or rejected, by
\* the 30 s timer, an error push, a completion or a failed step), the job
\* sends no further command: neither executePrintJob (startJob,
\* InitDrawingBoard, DrawLableText, commitJob) nor its listener (endJob).
C37_SettledJobSendsNothing ==
    [][\A j \in Jobs :
          printPromise[j] \in Settled
          => sent'[j] = sent[j] /\ endJobSent'[j] = endJobSent[j]
      ]_vars

\* C37, executePrintJob alone: a job resolved false by the 30 s timer sends
\* none of startJob .. commitJob afterwards
C37_TimedOutJobStopsDrawing ==
    [][\A j \in Jobs :
          printPromise[j] = "resolvedFalse" => sent'[j] = sent[j]
      ]_vars

\* the sockets that are connecting or open
LiveSockets == {s \in DOMAIN readyState : readyState[s] \in {"CONNECTING", "OPEN"}}

\* C38: at most one socket is connecting or open at any time, and a socket
\* that is connecting or open is the one _websocket refers to, whatever the
\* order of error events, close events and reconnect timers.
C38_OneLiveSocket ==
    /\ Cardinality(LiveSockets) <= 1
    /\ \A s \in LiveSockets : websocket = s

\* C38 witness: the first socket failed, its error event and its close event
\* each armed a reconnect timer, the first timer constructed the second
\* socket, which is open, and the second timer is still to fire
C38_Witness ==
    /\ readyState[1] = "CLOSED"
    /\ readyState[2] = "OPEN"
    /\ websocket = 2
    /\ reconnectTimers >= 1

\* the request that the promise of owner o belongs to has left the pool and
\* its timer is gone
RequestDestroyed(o) ==
    /\ \A x \in DOMAIN promisePool :
          ~(promisePool[x].owner = o /\ promisePool[x].n = promises[o].n)
    /\ ~TimerLive(sendTimers, o, promises[o].n)

\* C39: a request whose promise has been resolved - by a response, by its
\* timer or by the not-connected response - has no entry in promisePool and
\* no live timer.
C39_ResolvedRequestIsDestroyed ==
    \A o \in Owners :
        promises[o].status = "resolved" => RequestDestroyed(o)

\* C39, without the not-connected response: a request resolved by a response
\* or by its timer has no entry and no live timer
C39_AnsweredRequestIsDestroyed ==
    \A o \in Owners :
        (promises[o].status = "resolved" /\ promises[o].value # NotConnectedValue)
        => RequestDestroyed(o)

\* C40: isReady() holds only when the SDK was initialised and the printer
\* selected on the connection that is open now: in the step in which a socket
\* opens, nothing has yet been done on it, so the session is not ready - in
\* particular when the socket was constructed by the reconnect timer after an
\* unexpected drop.
C40_FreshConnectionIsNotReady ==
    [][\A s \in Sockets :
          SocketOpens(s)
          => ~(isConnected' /\ isSdkInitialized' /\ selectedPrinter' # NoPrinter)
      ]_vars

====
